---- MODULE Spec2Model ----
(***************************************************************************)
(* Shard editor (src/main.py): the launch coordinator (class Shard) and    *)
(* the save/dirty state machine of one editor window (class                *)
(* ShardInstance).                                                         *)
(*                                                                         *)
(* Text is modelled as sequences of one-character strings, so that the     *)
(* string operations of the code (strip, rstrip, split, concatenation)     *)
(* are computed and not assumed.  Python's None is the value None below.   *)
(***************************************************************************)
EXTENDS Integers, Sequences, FiniteSets, TLC

(***************************************************************************)
(* Bounds of the model.                                                    *)
(***************************************************************************)
NumProcs == 2
MaxArgs == 2
MaxText == 2
MaxHandoffs == 2
MaxWindows == 2

Procs == 1..NumProcs

(***************************************************************************)
(* Characters and Python string operations.                                *)
(***************************************************************************)
NL == "\n"
CR == "\r"
SP == " "
SEP == "/"
STAR == "*"

IsSpace(c) == c \in {SP, NL, CR, "\t"}

Last(s) == s[Len(s)]

Front(s) == SubSeq(s, 1, Len(s) - 1)

RECURSIVE LStrip(_)
LStrip(s) == IF s # <<>> /\ IsSpace(Head(s)) THEN LStrip(Tail(s)) ELSE s

RECURSIVE RStrip(_)
RStrip(s) == IF s # <<>> /\ IsSpace(Last(s)) THEN RStrip(Front(s)) ELSE s

\* str.strip()
Strip(s) == RStrip(LStrip(s))

\* str.rstrip('\n')
RECURSIVE RStripNL(_)
RStripNL(s) == IF s # <<>> /\ Last(s) = NL THEN RStripNL(Front(s)) ELSE s

\* str.split('\n'): the empty string splits into the one-element list ['']
RECURSIVE SplitNL(_)
SplitNL(s) ==
    IF s = <<>> THEN << <<>> >>
    ELSE IF Head(s) = NL THEN << <<>> >> \o SplitNL(Tail(s))
    ELSE LET r == SplitNL(Tail(s)) IN << <<Head(s)>> \o Head(r) >> \o Tail(r)

(***************************************************************************)
(* Paths.  A path is its string; None stands for Python's None and         *)
(* NoneStr for str(None).                                                  *)
(***************************************************************************)
None == << "<None>" >>
NoneStr == <<"N", "o", "n", "e">>
\* a mutant: the blank window is born with the star
UntitledStarred == << "*", "Untitled" >>

Untitled == << "Untitled" >>
TitleSuffix == << " - Shard" >>
Cwd == <<SEP>>
ScriptPath == <<SEP, "p">>

\* str(path), as written by f"\n{path}"
Str(x) == IF x = None THEN NoneStr ELSE x

\* Path(f).resolve(): a relative path is taken from the working directory
Resolve(f) == IF f # <<>> /\ Head(f) = SEP THEN f ELSE Cwd \o f

RECURSIVE LastSep(_)
LastSep(f) == IF f = <<>> THEN 0 ELSE IF Last(f) = SEP THEN Len(f) ELSE LastSep(Front(f))

\* path.stem + path.suffix: the last component
Name(f) == SubSeq(f, LastSep(f) + 1, Len(f))

\* path.parent
Parent(f) == IF LastSep(f) <= 1 THEN <<SEP>> ELSE SubSeq(f, 1, LastSep(f) - 1)

\* parent / name
Join(d, n) == IF d = <<SEP>> THEN d \o n ELSE d \o <<SEP>> \o n

(***************************************************************************)
(* Files on disk.  A file is absent, readable as UTF-8 ("utf8"), readable  *)
(* only under the fallback encoding ("ansi"), readable under neither       *)
(* ("bad"), readable but not writable ("readonly"), or closed to this user *)
(* ("denied").                                                             *)
(***************************************************************************)
Absent == [kind |-> "absent", data |-> <<>>]

File(k, x) == [kind |-> k, data |-> x]

ReadFile(d, f) == IF f \in DOMAIN d THEN d[f] ELSE Absent

\* file.write(x) of a file opened in text mode with the default newline: each
\* "\n" is written as os.linesep, which is "\r\n" where the editor runs
RECURSIVE WriteText(_)
WriteText(x) ==
    IF x = <<>> THEN <<>>
    ELSE (IF Head(x) = NL THEN <<CR, NL>> ELSE <<Head(x)>>) \o WriteText(Tail(x))

\* file.read() of a file opened in text mode with the default newline:
\* "\r\n" and a lone "\r" are both read as "\n"
RECURSIVE ReadText(_)
ReadText(b) ==
    IF b = <<>> THEN <<>>
    ELSE IF Head(b) = CR
         THEN <<NL>> \o ReadText(IF Tail(b) # <<>> /\ Head(Tail(b)) = NL
                                 THEN Tail(Tail(b)) ELSE Tail(b))
         ELSE <<Head(b)>> \o ReadText(Tail(b))

WriteFile(d, f, x) == (f :> File("utf8", WriteText(x))) @@ d

\* characters no encoding of the save accepts (a lone surrogate)
Unencodable == {"?"}

Encodable(x) == \A i \in 1..Len(x) : x[i] \notin Unencodable

Reserved == {"/", "\\", ":", "*", "?", "\"", "<", ">", "|"}

(***************************************************************************)
(* The settings file: nine fields with tabs between them.  A field is text *)
(* like any other; the names of colours and fonts are one token each, the  *)
(* numbers are written digit by digit.                                     *)
(***************************************************************************)
TAB == "\t"

SettingsFile == <<SEP, "EditorSettings.txt">>

Digits == <<"0", "1", "2", "3", "4", "5", "6", "7", "8", "9">>

\* str.isdecimal()
IsDecimal(f) == f # <<>> /\ \A i \in 1..Len(f) : \E n \in 1..10 : Digits[n] = f[i]

DigitValue(c) == (CHOOSE n \in 1..10 : Digits[n] = c) - 1

\* int(f) of a decimal string
RECURSIVE ParseInt(_)
ParseInt(f) == IF f = <<>> THEN 0 ELSE 10 * ParseInt(Front(f)) + DigitValue(Last(f))

\* str(n)
RECURSIVE FormatInt(_)
FormatInt(n) ==
    IF n < 10 THEN <<Digits[n + 1]>> ELSE FormatInt(n \div 10) \o <<Digits[(n % 10) + 1]>>

\* str.find(sep), counted from 1, of a string that holds sep
Find(s, sep) == CHOOSE k \in 1..Len(s) : s[k] = sep /\ \A j \in 1..(k - 1) : s[j] # sep

\* str.split(sep)
RECURSIVE SplitOn(_, _)
SplitOn(s, sep) ==
    IF \A k \in 1..Len(s) : s[k] # sep THEN <<s>>
    ELSE << SubSeq(s, 1, Find(s, sep) - 1) >>
            \o SplitOn(SubSeq(s, Find(s, sep) + 1, Len(s)), sep)

\* sep.join(fields)
RECURSIVE JoinWith(_, _)
JoinWith(fields, sep) ==
    IF fields = <<>> THEN <<>>
    ELSE IF Len(fields) = 1 THEN Head(fields)
    ELSE Head(fields) \o <<sep>> \o JoinWith(Tail(fields), sep)

\* the allowed values of the nine settings
Colors ==
    { <<c>> : c \in {"black", "white", "red", "silver", "gray", "yellow", "sky blue", "green",
                     "lime", "blue", "coral", "bisque", "purple", "pink"} }

Fonts ==
    { <<f>> : f \in {"Consolas", "Courier New", "Lucida Console", "NSimSun", "Cascadia Mono",
                     "MS Gothic"} }

Sizes == {8 + 2 * k : k \in 0..9} \cup {32, 48, 11, 72, 64, 96}

TabsizeAllowed == {4 + 2 * k : k \in 0..6}

Opacity == 30..100

FontStyles == {<<"bold">>, <<"normal">>}

WindowStates == {<<"normal">>, <<"zoomed">>}

TextWrapping == {<<"word">>, <<"none">>}

\* a setting that is text: the value read if it is allowed, else the default
StrField(f, allowed, default) == IF f \in allowed THEN f ELSE default

\* a mutant: a number is taken as read, whatever its range
IntFieldUnchecked(f, allowed, default) ==
    FormatInt(IF IsDecimal(f) THEN ParseInt(f) ELSE default)

\* a setting that is a number: int(f) if f is decimal and allowed, else the
\* default; save_editor_settings writes it with str()
IntField(f, allowed, default) ==
    FormatInt(IF IsDecimal(f) /\ ParseInt(f) \in allowed THEN ParseInt(f) ELSE default)

\* validate_written_settings(vals): the nine values kept by the window
ValidateWrittenSettings(vals) ==
    << StrField(vals[1], Colors, <<"black">>),
       StrField(vals[2], Colors, <<"white">>),
       StrField(vals[3], Fonts, <<"Consolas">>),
       IntField(vals[4], TabsizeAllowed, 4),
       IntField(vals[5], Sizes, 20),
       IntField(vals[6], Opacity, 100),
       StrField(vals[7], FontStyles, <<"normal">>),
       StrField(vals[8], WindowStates, <<"normal">>),
       StrField(vals[9], TextWrapping, <<"word">>) >>

\* save_editor_settings
SaveEditorSettings(d, vals) == WriteFile(d, SettingsFile, JoinWith(vals, TAB))

\* get_editor_settings: the file is made if missing, read, split, checked
\* and written again
GetEditorSettings(d) ==
    LET current == SplitOn(ReadText(ReadFile(d, SettingsFile).data), TAB)
        vals == IF Len(current) >= 9 /\ \A i \in 1..Len(current) : current[i] # <<>>
                THEN current
                ELSE current \o [i \in 1..9 |-> <<>>]
    IN  SaveEditorSettings(d, ValidateWrittenSettings(vals))

(***************************************************************************)
(* One editor window (class ShardInstance).  text is what was put into the *)
(* text widget; the widget's get("1.0", END) appends a newline to it.      *)
(***************************************************************************)
Get(s) == s.text \o <<NL>>

\* ShardInstance.__init__ up to the load: a blank, unbound window
BlankSession(req, origin) ==
    [req |-> req, origin |-> origin, filepath |-> ScriptPath, filename |-> Untitled,
     new_file |-> TRUE, text |-> <<>>, title |-> <<>>, win |-> TRUE]

\* the state one handler works on: its window, the disk, the last save
\* location file, the change of Shard.active_instances, the returned value
\* and whether an exception ended the handler
Ctx(s, d, ls) == [s |-> s, d |-> d, ls |-> ls, dc |-> 0, ret |-> "None", exc |-> FALSE]

Raise(c) == [c EXCEPT !.exc = TRUE]

Return(c, v) == [c EXCEPT !.ret = v]

\* update_window_title: a destroyed window raises TclError
UpdateWindowTitle(c, str) ==
    IF c.s.win THEN [c EXCEPT !.s.title = str \o TitleSuffix] ELSE Raise(c)

\* a mutant: the window is destroyed and the counter forgotten
CloseInstanceUncounted(c) == [c EXCEPT !.s.win = FALSE]

\* close_instance
CloseInstance(c) == [c EXCEPT !.dc = c.dc - 1, !.s.win = FALSE]

\* a mutant: the load forgets that a missing file is a new file
NewFileAfterLoadNever(kind) == FALSE

\* new_file once the load is over: set to False before it, and back to True
\* when the file is not found
NewFileAfterLoad(kind) == kind = "absent"

\* ShardInstance.__init__(master, filepath)
ShardInstanceInit(req, origin, d) ==
    LET c0 == Ctx(BlankSession(req, origin), GetEditorSettings(d), <<>>) IN
    IF req = None
    THEN [UpdateWindowTitle(c0, Untitled) EXCEPT !.dc = 1]
    ELSE LET fp == Resolve(req)
             f == ReadFile(c0.d, fp)
             c1 == [c0 EXCEPT !.s.filepath = fp, !.s.new_file = NewFileAfterLoad(f.kind)]
         IN  IF f.kind \in {"denied", "bad"}
             THEN CloseInstance(c1)
             ELSE LET c2 == [c1 EXCEPT !.s.filename = Name(fp),
                                       !.s.text = IF f.kind = "absent" THEN <<>>
                                                  ELSE ReadText(f.data)]
                  IN  [UpdateWindowTitle(c2, c2.s.filename) EXCEPT !.dc = 1]

\* a mutant: the test for a new file without the rstrip
NewFileHasTextRaw(s) == Get(s) # <<>>

\* is_file_saved's test for a new file: the buffer holds more than newlines
NewFileHasText(s) == RStripNL(Get(s)) # <<>>

\* a mutant: every read of the file fails as if the file were missing
NotFoundAlways(f) == TRUE

\* open() raises FileNotFoundError
NotFound(f) == f.kind = "absent"

\* a mutant: the check answers saved when the file is not found
NotFoundAnswerSaved == "True"

\* is_file_saved, when the file is not found: return False
NotFoundAnswer == "False"

\* a mutant: the check leaves new_file alone
DemoteNot(c) == c

\* is_file_saved, when the file is not found: self.new_file = True
Demote(c) == [c EXCEPT !.s.new_file = TRUE]

\* is_file_saved
IsFileSaved(c) ==
    IF c.s.new_file
    THEN Return(IF NewFileHasText(c.s)
                THEN UpdateWindowTitle(c, <<STAR>> \o c.s.filename)
                ELSE UpdateWindowTitle(c, c.s.filename), "False")
    ELSE LET f == ReadFile(c.d, Join(Parent(c.s.filepath), c.s.filename)) IN
         IF NotFound(f) THEN Return(Demote(c), NotFoundAnswer)
         ELSE IF f.kind \in {"denied", "bad"} THEN Return(CloseInstance(c), "None")
         ELSE LET cond == RStripNL(ReadText(f.data)) = RStripNL(Get(c.s)) IN
              Return(IF ~cond
                     THEN UpdateWindowTitle(c, <<STAR>> \o c.s.filename)
                     ELSE UpdateWindowTitle(c, c.s.filename),
                     IF cond THEN "True" ELSE "False")

\* save_file
SaveFile(c, close_after_saving) ==
    LET name == c.s.filename
        target == Join(Parent(c.s.filepath), name)
        content == Get(c.s)
        f == ReadFile(c.d, target)
        d1 == IF f.kind \in {"denied", "readonly"} THEN c.d
              ELSE IF Encodable(content) THEN WriteFile(c.d, target, content)
              ELSE WriteFile(c.d, target, <<>>)
    IN  IF Strip(name) = <<>> THEN Return(c, "None")
        ELSE IF {name[i] : i \in 1..Len(name)} \cap Reserved # {} THEN Return(c, "None")
        ELSE IF ~c.s.win THEN Raise(c)
        ELSE LET c1 == UpdateWindowTitle([c EXCEPT !.d = d1], name)
                 c2 == [c1 EXCEPT !.s.new_file = FALSE]
             IN  IF c1.exc THEN c1
                 ELSE Return(IF close_after_saving THEN CloseInstance(c2) ELSE c2, "True")

\* save_window; choice is the answer of the save dialog, empty when cancelled
SaveWindow(c, saveAs, close_after_saving, choice) ==
    LET r == IF saveAs THEN c ELSE IsFileSaved(c) IN
    IF r.exc THEN r
    ELSE IF ~saveAs /\ r.ret = "True" THEN Return(r, "None")
    ELSE IF ~saveAs /\ ~r.s.new_file THEN Return(SaveFile(r, close_after_saving), "None")
    ELSE IF choice = <<>> THEN Return(r, "None")
    ELSE Return(SaveFile([r EXCEPT !.s.filepath = choice,
                                   !.s.filename = Name(choice),
                                   !.ls = Str(Parent(choice))],
                         close_after_saving), "None")

\* a mutant: the close request closes the window whatever the answer
CloseWhateverTheAnswer(c, answer, choice) == CloseInstance(IsFileSaved(c))

\* save_before_closing_instance; answer is the answer of the prompt
SaveBeforeClosingInstance(c, answer, choice) ==
    LET r == IsFileSaved(c) IN
    IF r.exc THEN r
    ELSE IF r.ret = "True" THEN CloseInstance(r)
    ELSE IF r.s.new_file /\ RStripNL(Get(r.s)) = <<>> THEN CloseInstance(r)
    ELSE IF ~r.s.win THEN Raise(r)
    ELSE IF answer = "yes" THEN SaveWindow(r, FALSE, TRUE, choice)
    ELSE IF answer = "cancel" THEN r
    ELSE CloseInstance(r)

\* save_window reaches the save dialog
SaveDialogShown(c, saveAs) ==
    saveAs \/ LET r == IsFileSaved(c) IN ~r.exc /\ r.ret # "True" /\ r.s.new_file

\* save_before_closing_instance reaches the prompt
ClosePromptShown(c) ==
    LET r == IsFileSaved(c) IN
    ~r.exc /\ r.ret # "True" /\ ~(r.s.new_file /\ RStripNL(Get(r.s)) = <<>>) /\ r.s.win

\* open_file_window's test for taking the file into the window itself
TakesFileHere(s) == s.new_file /\ Strip(Get(s)) = <<>> /\ s.filename = Untitled

\* open_file_window, the file taken into the window: the buffer is emptied
\* and filled with the content read
OpenHere(c, opened, content) ==
    [UpdateWindowTitle([c EXCEPT !.s.filepath = opened, !.s.filename = Name(opened)],
                       Name(opened))
        EXCEPT !.s.text = content, !.s.new_file = FALSE]

\* start_new_file(filepath): the window constructed, over the disk d
StartNewFile(filepath, d) == ShardInstanceInit(filepath, "window", d)

\* a mutant: the file is always opened in a window of its own
OpenFileWindowApart(c, opened) ==
    IF opened = <<>> \/ ReadFile(c.d, opened).kind \in {"denied", "absent", "bad"}
    THEN [here |-> c, made |-> <<>>]
    ELSE [here |-> c, made |-> <<StartNewFile(opened, c.d)>>]

\* open_file_window with the answer of the dialog (<<>>: cancelled): the
\* window as it is left, and the windows constructed
OpenFileWindow(c, opened) ==
    LET f == ReadFile(c.d, opened) IN
    IF opened = <<>> \/ f.kind \in {"denied", "absent", "bad"}
    THEN [here |-> c, made |-> <<>>]
    ELSE IF TakesFileHere(c.s)
         THEN [here |-> OpenHere(c, opened, ReadText(f.data)), made |-> <<>>]
         ELSE [here |-> c, made |-> <<StartNewFile(opened, c.d)>>]

(***************************************************************************)
(* The state: the shared files of the coordinator, and each process.       *)
(***************************************************************************)
VARIABLES
    marker,     \* Shard.shard_running_indicator exists
    queue,      \* content of Shard.instance_queue_file
    written,    \* the paths written to the queue file since it was last truncated
    disk,       \* the user's files
    lastsave,   \* content of Shard.save_location_file
    pc,         \* where each process is
    seen,       \* the processes that ran the poll loop when this one was launched
    todo,       \* the arguments a process has still to pass to create_instance
    foreign,    \* foreign_files of the running open_instances_from_list
    fpos,       \* the place in foreign_files the list comprehension has reached
    count,      \* Shard.active_instances
    sessions    \* every ShardInstance a process constructed, in order

vars == <<marker, queue, written, disk, lastsave, pc, seen, todo, foreign, fpos, count,
          sessions>>

FileA == <<SEP, "a">>
FileD == <<SEP, "d">>
FileM == <<SEP, "m">>

\* /a holds text, /d is closed to the user, /m does not exist
Disk0 == (FileA :> File("utf8", <<"x", NL>>)) @@ (FileD :> File("denied", <<>>))

RECURSIVE SeqsUpTo(_, _)
SeqsUpTo(S, n) ==
    IF n = 0 THEN {<<>>}
    ELSE LET r == SeqsUpTo(S, n - 1) IN r \cup {Append(x, y) : x \in r, y \in S}

\* the command lines of the launches: a relative and an absolute path
ArgLists == SeqsUpTo({<<"a">>, FileD}, MaxArgs)

Init ==
    /\ marker = FALSE
    /\ queue = <<>>
    /\ written = <<>>
    /\ disk = Disk0
    /\ lastsave = <<>>
    /\ pc = [p \in Procs |-> "idle"]
    /\ seen = [p \in Procs |-> {}]
    /\ todo = [p \in Procs |-> <<>>]
    /\ foreign = [p \in Procs |-> <<>>]
    /\ fpos = [p \in Procs |-> 1]
    /\ count = [p \in Procs |-> 0]
    /\ sessions = [p \in Procs |-> <<>>]

(***************************************************************************)
(* The launch coordinator (class Shard and the main block).  Each access   *)
(* to the marker directory or to the queue file is a step of its own: the  *)
(* processes share nothing else.                                           *)
(***************************************************************************)
\* the process is inside start(), past mkdir: it runs the poll loop
InPollLoop(p) == pc[p] \in {"read", "clear", "open", "wait"}

\* create_instance's choice between a window for the path and a blank one
Request(x) == IF x = NoneStr THEN None ELSE x

\* ins.strip() != ''
NonBlank(x) == Strip(x) # <<>>

\* the lines of a queue file content that open_instances_from_list opens
Requests(q) == SelectSeq(SplitNL(Strip(q)), NonBlank)

\* a mutant: the line is written without its newline
QueueLineBare(x) == Str(x)

\* what add_instance_to_list writes for a path
QueueLine(x) == <<NL>> \o Str(x)

\* a mutant: the test misses the count of zero
NoInstancesRunningBelow(n) == n < 0

\* the test of close_shard_if_no_instances_running
NoInstancesRunning(n) == n <= 0

\* ShardInstance(self.master, filepath) in process p
Construct(p, x, origin) ==
    LET c == ShardInstanceInit(Request(x), origin, disk) IN
    /\ sessions' = [sessions EXCEPT ![p] = Append(@, c.s)]
    /\ count' = [count EXCEPT ![p] = @ + c.dc]
    /\ disk' = c.d

\* master.destroy(): every window of the process goes with it
DestroyAll(p) ==
    sessions' = [sessions EXCEPT ![p] = [i \in DOMAIN @ |-> [@[i] EXCEPT !.win = FALSE]]]

AfterCreate(p) == IF Tail(todo[p]) = <<>> THEN "start" ELSE "create"

\* the main block: a process starts with its arguments resolved, or with
\* one call create_instance() when it has none
Launch(p, args) ==
    /\ pc[p] = "idle"
    /\ todo' = [todo EXCEPT ![p] = IF args = <<>> THEN <<None>>
                                   ELSE [i \in DOMAIN args |-> Resolve(args[i])]]
    /\ seen' = [seen EXCEPT ![p] = {q \in Procs : InPollLoop(q)}]
    /\ pc' = [pc EXCEPT ![p] = "create"]
    /\ UNCHANGED <<marker, queue, written, disk, lastsave, foreign, fpos, count, sessions>>

\* create_instance(filepath): the marker is looked up, and without it the
\* window is constructed
CreateInstance(p) ==
    /\ pc[p] = "create"
    /\ IF marker
       THEN /\ pc' = [pc EXCEPT ![p] = "add"]
            /\ UNCHANGED <<todo, sessions, count, disk>>
       ELSE /\ Construct(p, Head(todo[p]), "arg")
            /\ todo' = [todo EXCEPT ![p] = Tail(@)]
            /\ pc' = [pc EXCEPT ![p] = AfterCreate(p)]
    /\ UNCHANGED <<marker, queue, written, lastsave, seen, foreign, fpos>>

\* add_instance_to_list(path)
AddInstanceToList(p) ==
    /\ pc[p] = "add"
    /\ queue' = queue \o QueueLine(Head(todo[p]))
    /\ written' = Append(written, Head(todo[p]))
    /\ todo' = [todo EXCEPT ![p] = Tail(@)]
    /\ pc' = [pc EXCEPT ![p] = AfterCreate(p)]
    /\ UNCHANGED <<marker, disk, lastsave, seen, foreign, fpos, count, sessions>>

\* start(): the marker is looked up
Start(p) ==
    /\ pc[p] = "start"
    /\ pc' = [pc EXCEPT ![p] = IF marker THEN "sleep" ELSE "mkdir"]
    /\ UNCHANGED <<marker, queue, written, disk, lastsave, seen, todo, foreign, fpos, count,
                   sessions>>

\* a mutant: the queue file is always found empty
ForeignFileEmptyAlways(q) == TRUE

\* is_foreign_file_empty(), on the content of the queue file
ForeignFileEmpty(q) == Strip(q) = <<>>

\* start(): after the sleep, is_foreign_file_empty() decides
IsForeignFileEmpty(p) ==
    /\ pc[p] = "sleep"
    /\ IF ForeignFileEmpty(queue)
       THEN /\ pc' = [pc EXCEPT ![p] = "done"]
            /\ DestroyAll(p)
       ELSE /\ pc' = [pc EXCEPT ![p] = "mkdir"]
            /\ UNCHANGED sessions
    /\ UNCHANGED <<marker, queue, written, disk, lastsave, seen, todo, foreign, fpos, count>>

\* start(): shard_running_indicator.mkdir(exist_ok=True)
Mkdir(p) ==
    /\ pc[p] = "mkdir"
    /\ marker' = TRUE
    /\ pc' = [pc EXCEPT ![p] = "read"]
    /\ UNCHANGED <<queue, written, disk, lastsave, seen, todo, foreign, fpos, count, sessions>>

\* open_instances_from_list: the queue file is read, at the start and on
\* every later tick of the timer
ReadQueue(p) ==
    /\ pc[p] \in {"read", "wait"}
    /\ foreign' = [foreign EXCEPT ![p] = SplitNL(Strip(queue))]
    /\ fpos' = [fpos EXCEPT ![p] = 1]
    /\ pc' = [pc EXCEPT ![p] = "clear"]
    /\ UNCHANGED <<marker, queue, written, disk, lastsave, seen, todo, count, sessions>>

\* open_instances_from_list: the queue file is truncated
ClearQueue(p) ==
    /\ pc[p] = "clear"
    /\ queue' = <<>>
    /\ written' = <<>>
    /\ pc' = [pc EXCEPT ![p] = "open"]
    /\ UNCHANGED <<marker, disk, lastsave, seen, todo, foreign, fpos, count, sessions>>

\* open_instances_from_list: the next line read is opened, unless blank
OpenNext(p) ==
    /\ pc[p] = "open"
    /\ fpos[p] <= Len(foreign[p])
    /\ IF NonBlank(foreign[p][fpos[p]])
       THEN Construct(p, foreign[p][fpos[p]], "queue")
       ELSE UNCHANGED <<sessions, count, disk>>
    /\ fpos' = [fpos EXCEPT ![p] = @ + 1]
    /\ UNCHANGED <<marker, queue, written, lastsave, pc, seen, todo, foreign>>

\* the list comprehension of open_instances_from_list has ended
Drained(p) == pc[p] = "open" /\ fpos[p] > Len(foreign[p])

\* close_shard_if_no_instances_running, and the timer set again when it returns
CloseShardIfNoInstancesRunning(p) ==
    /\ Drained(p)
    /\ IF NoInstancesRunning(count[p])
       THEN /\ DestroyAll(p)
            /\ pc' = [pc EXCEPT ![p] = "exists"]
       ELSE /\ pc' = [pc EXCEPT ![p] = "wait"]
            /\ UNCHANGED sessions
    /\ foreign' = [foreign EXCEPT ![p] = <<>>]
    /\ fpos' = [fpos EXCEPT ![p] = 1]
    /\ UNCHANGED <<marker, queue, written, disk, lastsave, seen, todo, count>>

\* close_shard_if_no_instances_running: shard_running_indicator.exists()
MarkerExists(p) ==
    /\ pc[p] = "exists"
    /\ pc' = [pc EXCEPT ![p] = IF marker THEN "rmdir" ELSE "done"]
    /\ UNCHANGED <<marker, queue, written, disk, lastsave, seen, todo, foreign, fpos, count,
                   sessions>>

\* close_shard_if_no_instances_running: rmdir() and sys.exit(0); the process
\* ends as well when rmdir() finds no directory
Rmdir(p) ==
    /\ pc[p] = "rmdir"
    /\ marker' = FALSE
    /\ pc' = [pc EXCEPT ![p] = "done"]
    /\ UNCHANGED <<queue, written, disk, lastsave, seen, todo, foreign, fpos, count, sessions>>

(***************************************************************************)
(* The user's gestures on window i of process p.  They are served by the   *)
(* main loop, between two ticks of the timer.                              *)
(***************************************************************************)
Live(p, i) == pc[p] = "wait" /\ i \in DOMAIN sessions[p] /\ sessions[p][i].win

\* a handler's result written back
Apply(p, i, c) ==
    /\ sessions' = [sessions EXCEPT ![p][i] = c.s]
    /\ count' = [count EXCEPT ![p] = @ + c.dc]
    /\ disk' = c.d
    /\ lastsave' = c.ls

Here(p, i) == Ctx(sessions[p][i], disk, lastsave)

\* what the buffer may hold: text of letters and newlines, and a pasted
\* carriage return
Texts == SeqsUpTo({"x", NL}, MaxText) \cup {<<CR>>}

BadName == <<SEP, "b", ":">>

\* what the save dialog may return: nothing, /a, /d that the user may not
\* write, and a name with a colon
SaveChoices == {<<>>, FileA, FileD, BadName}

Answers == {"yes", "no", "cancel"}

\* the text widget's own handling of keys and pastes
Edit(p, i, t) ==
    /\ Live(p, i)
    /\ t # sessions[p][i].text
    /\ sessions' = [sessions EXCEPT ![p][i].text = t]
    /\ UNCHANGED <<marker, queue, written, disk, lastsave, pc, seen, todo, foreign, fpos,
                   count>>

\* <KeyRelease>, and the timer of 100 ms set by __init__: is_file_saved()
KeyRelease(p, i) ==
    /\ Live(p, i)
    /\ Apply(p, i, IsFileSaved(Here(p, i)))
    /\ UNCHANGED <<marker, queue, written, pc, seen, todo, foreign, fpos>>

\* Save and Save As: save_window(saveAs)
SaveRequest(p, i, saveAs, choice) ==
    /\ Live(p, i)
    /\ Apply(p, i, SaveWindow(Here(p, i), saveAs, FALSE, choice))
    /\ UNCHANGED <<marker, queue, written, pc, seen, todo, foreign, fpos>>

\* WM_DELETE_WINDOW: save_before_closing_instance()
CloseRequest(p, i, answer, choice) ==
    /\ Live(p, i)
    /\ Apply(p, i, SaveBeforeClosingInstance(Here(p, i), answer, choice))
    /\ UNCHANGED <<marker, queue, written, pc, seen, todo, foreign, fpos>>

\* what the open dialog may answer: cancelled, a file, a file the user may
\* not read, a name of no file
OpenChoices == {<<>>, FileA, FileD, FileM}

\* a handler's result written back, with the windows it constructed
ApplyMade(p, i, r) ==
    LET last == IF r.made = <<>> THEN r.here ELSE r.made[Len(r.made)] IN
    /\ sessions' = [sessions EXCEPT
                       ![p] = [@ EXCEPT ![i] = r.here.s] \o [j \in DOMAIN r.made |-> r.made[j].s]]
    /\ count' = [count EXCEPT
                    ![p] = @ + r.here.dc + (IF r.made = <<>> THEN 0 ELSE r.made[1].dc)]
    /\ disk' = last.d
    /\ lastsave' = r.here.ls

\* Open: open_file_window()
OpenRequest(p, i, opened) ==
    /\ Live(p, i)
    /\ LET r == OpenFileWindow(Here(p, i), opened) IN
        /\ Len(sessions[p]) + Len(r.made) <= MaxWindows
        /\ ApplyMade(p, i, r)
    /\ UNCHANGED <<marker, queue, written, pc, seen, todo, foreign, fpos>>

\* New: start_new_file()
NewRequest(p, i) ==
    /\ Live(p, i)
    /\ Len(sessions[p]) < MaxWindows
    /\ ApplyMade(p, i, [here |-> Here(p, i), made |-> <<StartNewFile(None, disk)>>])
    /\ UNCHANGED <<marker, queue, written, pc, seen, todo, foreign, fpos>>

\* the files that other programs remove or close to the user
ExternalFiles == {FileA}

\* another program removes file f
Unlink(f) ==
    /\ f \in DOMAIN disk
    /\ disk' = [g \in DOMAIN disk \ {f} |-> disk[g]]
    /\ UNCHANGED <<marker, queue, written, lastsave, pc, seen, todo, foreign, fpos, count,
                   sessions>>

\* another program takes the user's permissions on file f away
Chmod(f) ==
    /\ f \in DOMAIN disk
    /\ disk[f].kind # "denied"
    /\ disk' = [disk EXCEPT ![f] = File("denied", <<>>)]
    /\ UNCHANGED <<marker, queue, written, lastsave, pc, seen, todo, foreign, fpos, count,
                   sessions>>

FileChanged == \E f \in ExternalFiles : Unlink(f) \/ Chmod(f)

\* the gestures, on any window and with any input
Launched(p) == \E args \in ArgLists : Launch(p, args)

Typing(p) == \E i \in DOMAIN sessions[p], t \in Texts : Edit(p, i, t)

KeyReleased(p) == \E i \in DOMAIN sessions[p] : KeyRelease(p, i)

\* a dialog that is not shown gives no answer
SaveRequested(p) ==
    \E i \in DOMAIN sessions[p], saveAs \in BOOLEAN :
        \E choice \in IF SaveDialogShown(Here(p, i), saveAs) THEN SaveChoices ELSE {<<>>} :
            SaveRequest(p, i, saveAs, choice)

CloseRequested(p) ==
    \E i \in DOMAIN sessions[p] :
        \E answer \in IF ClosePromptShown(Here(p, i)) THEN Answers ELSE {"none"} :
            \E choice \in IF answer = "yes" /\ SaveDialogShown(IsFileSaved(Here(p, i)), FALSE)
                          THEN SaveChoices ELSE {<<>>} :
                CloseRequest(p, i, answer, choice)

\* what is typed where files are opened from windows: nothing, a letter, a
\* newline, a space
ShortTexts == {<<>>, <<"x">>, <<NL>>, <<SP>>}

TypingShort(p) == \E i \in DOMAIN sessions[p], t \in ShortTexts : Edit(p, i, t)

OpenRequested(p) == \E i \in DOMAIN sessions[p], opened \in OpenChoices : OpenRequest(p, i, opened)

NewRequested(p) == \E i \in DOMAIN sessions[p] : NewRequest(p, i)

\* a close request whose prompt, if shown, is answered No or Cancel
ClosedUnsaved(p) ==
    \E i \in DOMAIN sessions[p] :
        \E answer \in IF ClosePromptShown(Here(p, i)) THEN {"no", "cancel"} ELSE {"none"} :
            CloseRequest(p, i, answer, <<>>)

(***************************************************************************)
(* Spec: the processes of several launches, their windows opened and       *)
(* closed.                                                                 *)
(***************************************************************************)
Next ==
    \E p \in Procs :
        \/ Launched(p)
        \/ CreateInstance(p)
        \/ AddInstanceToList(p)
        \/ Start(p)
        \/ IsForeignFileEmpty(p)
        \/ Mkdir(p)
        \/ ReadQueue(p)
        \/ ClearQueue(p)
        \/ OpenNext(p)
        \/ CloseShardIfNoInstancesRunning(p)
        \/ MarkerExists(p)
        \/ Rmdir(p)
        \/ CloseRequested(p)

Spec == Init /\ [][Next]_vars

(***************************************************************************)
(* SpecEd: one process, and the user at work in its windows.               *)
(***************************************************************************)
EdArgLists == {<<>>, << <<"a">> >>, << <<"m">> >>, <<FileD>>}

LaunchedEd == \E args \in EdArgLists : Launch(1, args)

NextEd ==
    \/ LaunchedEd
    \/ CreateInstance(1)
    \/ Start(1)
    \/ Mkdir(1)
    \/ ReadQueue(1)
    \/ ClearQueue(1)
    \/ OpenNext(1)
    \/ CloseShardIfNoInstancesRunning(1)
    \/ MarkerExists(1)
    \/ Rmdir(1)
    \/ Typing(1)
    \/ KeyReleased(1)
    \/ SaveRequested(1)
    \/ CloseRequested(1)
    \/ FileChanged

SpecEd == Init /\ [][NextEd]_vars

(***************************************************************************)
(* SpecPoll: process 1 and its poll loop, with the later launches reduced  *)
(* to what they do to it: each writes a line to the queue file.            *)
(***************************************************************************)
HandoffPaths == {None, FileA, FileD}

\* add_instance_to_list(x) of a launch that found the marker of process 1
Handoff(x) ==
    /\ pc[1] \notin {"idle", "create", "start", "mkdir"}
    /\ Cardinality({i \in DOMAIN sessions[1] : sessions[1][i].origin = "queue"})
          + Len(written) < MaxHandoffs
    /\ queue' = queue \o QueueLine(x)
    /\ written' = Append(written, x)
    /\ UNCHANGED <<marker, disk, lastsave, pc, seen, todo, foreign, fpos, count, sessions>>

HandedOff == \E x \in HandoffPaths : Handoff(x)

\* the launches of process 1: without arguments, and with a file that cannot
\* be read
PollArgLists == {<<>>, <<FileD>>}

LaunchedPoll == \E args \in PollArgLists : Launch(1, args)

NextPoll ==
    \/ LaunchedPoll
    \/ CreateInstance(1)
    \/ Start(1)
    \/ Mkdir(1)
    \/ ReadQueue(1)
    \/ ClearQueue(1)
    \/ OpenNext(1)
    \/ CloseShardIfNoInstancesRunning(1)
    \/ MarkerExists(1)
    \/ Rmdir(1)
    \/ CloseRequested(1)
    \/ HandedOff

SpecPoll == Init /\ [][NextPoll]_vars

(***************************************************************************)
(* A launch over a settings file left by an earlier run or edited by hand: *)
(* nine allowed values, one of them then spoiled.  The first window of the *)
(* launch reads the file.                                                  *)
(***************************************************************************)
SettingsWritten ==
    { << bg, <<"white">>, ft, tb, <<"2", "0">>, op, <<"normal">>, ws, <<"word">> >> :
        bg \in {<<"black">>, <<"sky blue">>},
        ft \in {<<"Consolas">>},
        tb \in {<<"4">>, <<"1", "6">>},
        op \in {<<"1", "0", "0">>, <<"3", "0">>},
        ws \in {<<"zoomed">>} }

Spoilt == {<<>>, <<"q">>, <<"9", "9", "9">>, <<"5">>}

SettingsFound ==
    { [vals EXCEPT ![i] = x] : vals \in SettingsWritten, i \in 1..9, x \in Spoilt }

InitSettings ==
    /\ marker = FALSE
    /\ queue = <<>>
    /\ written = <<>>
    /\ \E vals \in SettingsFound : disk = SaveEditorSettings(Disk0, vals)
    /\ lastsave = <<>>
    /\ pc = [p \in Procs |-> "idle"]
    /\ seen = [p \in Procs |-> {}]
    /\ todo = [p \in Procs |-> <<>>]
    /\ foreign = [p \in Procs |-> <<>>]
    /\ fpos = [p \in Procs |-> 1]
    /\ count = [p \in Procs |-> 0]
    /\ sessions = [p \in Procs |-> <<>>]

NextSettings ==
    \/ LaunchedEd
    \/ CreateInstance(1)
    \/ Start(1)
    \/ Mkdir(1)

SpecSettings == InitSettings /\ [][NextSettings]_vars

(***************************************************************************)
(* SpecStale: a launch that finds the marker of a process that ended       *)
(* without removing it, and perhaps a line that process never read.  The   *)
(* process runs on by itself (its main block, then the timer of Tk), the   *)
(* user closes windows when they like.                                     *)
(***************************************************************************)
InitStale ==
    /\ marker = TRUE
    /\ written \in {<<>>, <<FileA>>}
    /\ queue = (IF written = <<>> THEN <<>> ELSE QueueLine(written[1]))
    /\ disk = Disk0
    /\ lastsave = <<>>
    /\ pc = [p \in Procs |-> "idle"]
    /\ seen = [p \in Procs |-> {}]
    /\ todo = [p \in Procs |-> <<>>]
    /\ foreign = [p \in Procs |-> <<>>]
    /\ fpos = [p \in Procs |-> 1]
    /\ count = [p \in Procs |-> 0]
    /\ sessions = [p \in Procs |-> <<>>]

\* the steps of the main block and of the timer, but for the list
\* comprehension of open_instances_from_list
Runs(p) ==
    \/ CreateInstance(p)
    \/ AddInstanceToList(p)
    \/ Start(p)
    \/ IsForeignFileEmpty(p)
    \/ Mkdir(p)
    \/ ReadQueue(p)
    \/ ClearQueue(p)
    \/ CloseShardIfNoInstancesRunning(p)
    \/ MarkerExists(p)
    \/ Rmdir(p)

\* the list comprehension goes on to its next line: what OpenNext does to
\* its position
GoesOn(p) ==
    /\ pc[p] = "open"
    /\ fpos[p] <= Len(foreign[p])
    /\ fpos' = [fpos EXCEPT ![p] = @ + 1]

NextStale ==
    \/ Launched(1)
    \/ Runs(1)
    \/ OpenNext(1)
    \/ CloseRequested(1)

\* the process runs on whenever it can: no step of its code waits for ever
SpecStale == InitStale /\ [][NextStale]_vars /\ WF_vars(Runs(1)) /\ WF_fpos(GoesOn(1))

(***************************************************************************)
(* SpecOpen: one process whose windows open files and new windows.         *)
(***************************************************************************)
NextOpen ==
    \/ LaunchedEd
    \/ CreateInstance(1)
    \/ Start(1)
    \/ Mkdir(1)
    \/ ReadQueue(1)
    \/ ClearQueue(1)
    \/ OpenNext(1)
    \/ CloseShardIfNoInstancesRunning(1)
    \/ MarkerExists(1)
    \/ Rmdir(1)
    \/ TypingShort(1)
    \/ KeyReleased(1)
    \/ OpenRequested(1)
    \/ NewRequested(1)
    \/ ClosedUnsaved(1)

SpecOpen == Init /\ [][NextOpen]_vars

(***************************************************************************)
(* The claims.                                                             *)
(***************************************************************************)
Windows(p) == {i \in DOMAIN sessions[p] : sessions[p][i].win}

\* a construction that ended before the title was set: the load failed
Failed(s) == s.title = <<>>

\* the lines of foreign_files that are opened, and those already passed
Lines(p) == SelectSeq(foreign[p], NonBlank)

LinesDone(p) == SelectSeq(SubSeq(foreign[p], 1, fpos[p] - 1), NonBlank)

\* the window made for the j-th of the last k constructions of p
Recent(p, k, j) == sessions[p][Len(sessions[p]) - k + j]

\* process p constructs a window in this step
Constructs(p) == Len(sessions'[p]) = Len(sessions[p]) + 1

\* the poll tick of p takes its decision in this step
Decides(p) == Drained(p) /\ pc'[p] # "open"

\* C1: once a primary exists (it runs the poll loop), a process launched
\* later constructs no window of its own, as long as that primary runs.
C1_LaterLaunchOpensNothing ==
    \A p \in Procs : \A q \in seen[p] : InPollLoop(q) => sessions[p] = <<>>

\* C2: no path written to the queue file is lost: the truncation of the
\* poll loop removes only the lines that its read has taken.
C2_TruncationLosesNoPath ==
    [][\A p \in Procs :
          (pc[p] = "clear" /\ pc'[p] = "open") => Requests(queue) = Lines(p)]_vars

\* the paths written to the queue file since its last truncation, as strings
WrittenLines == [i \in DOMAIN written |-> Str(written[i])]

\* C3: the queue file holds the paths written since its last truncation, one
\* request each and in the order written; a read takes exactly these, in
\* that order; the truncation leaves the file empty; and a drain constructs
\* one window per line read, in order, skipping blank lines.
C3_DrainOpensAllInOrder ==
    /\ [](/\ Requests(queue) = WrittenLines
          /\ \A p \in Procs :
                pc[p] = "open" =>
                   LET k == Len(LinesDone(p)) IN
                   /\ k <= Len(sessions[p])
                   /\ \A j \in 1..k :
                         /\ Recent(p, k, j).req = Request(LinesDone(p)[j])
                         /\ Recent(p, k, j).origin = "queue")
    /\ [][\A p \in Procs :
             /\ (pc[p] # "clear" /\ pc'[p] = "clear") => Lines(p)' = WrittenLines
             /\ (pc[p] = "clear" /\ pc'[p] = "open") => queue' = <<>>]_vars

C3_Witness ==
    /\ Drained(1)
    /\ Len(Lines(1)) = 2
    /\ Lines(1)[1] # Lines(1)[2]
    /\ queue = <<>>

\* C4: at most one process runs the poll loop.
C4_AtMostOnePrimary == Cardinality({p \in Procs : InPollLoop(p)}) <= 1

\* C5: a process leaves the poll loop only in a tick that finds the counter
\* at or below zero after the drain; the marker is removed only by such a
\* process; a close leaves the process and the marker alone; and a tick that
\* opens a window for a handoff, after the windows the process had were all
\* closed, keeps the process alive.
C5_ExitOnlyAtTickHandoffKeepsAlive ==
    [][\A p \in Procs :
          /\ (pc[p] # "exists" /\ pc'[p] = "exists") => (Drained(p) /\ count[p] <= 0)
          /\ (marker /\ ~marker') => \E q \in Procs : pc[q] = "rmdir"
          /\ (pc[p] = "wait" /\ count'[p] < count[p]) => (pc'[p] = "wait" /\ marker' = marker)
          /\ LET k == Len(Lines(p)) IN
             ( /\ Decides(p)
               /\ k <= Len(sessions[p])
               /\ \A i \in Windows(p) : i > Len(sessions[p]) - k
               /\ \E i \in 1..(Len(sessions[p]) - k) : ~Failed(sessions[p][i])
               /\ Windows(p) # {} )
             => pc'[p] = "wait"]_vars

\* C6: a tick that finds the counter at or below zero after the drain ends
\* the process, which removes the marker; a tick that finds it above zero
\* sets the timer again; between ticks the process does neither, and only
\* a process so ended removes the marker; and a tick that reads a queue file
\* without requests constructs nothing.
C6_TickDecides ==
    [][\A p \in Procs :
          /\ Decides(p) => pc'[p] = (IF count[p] <= 0 THEN "exists" ELSE "wait")
          /\ (Decides(p) /\ count[p] <= 0) => Windows(p)' = {}
          /\ pc[p] = "wait" => pc'[p] \in {"wait", "clear"}
          /\ (marker /\ ~marker') => \E q \in Procs : pc[q] = "rmdir" /\ pc'[q] = "done"
          /\ (pc[p] = "wait" /\ pc'[p] = "clear" /\ Requests(queue) = <<>>) => Lines(p)' = <<>>
          /\ (pc[p] = "open" /\ Lines(p) = <<>>) => count'[p] = count[p]
          /\ (pc[p] = "exists" /\ pc'[p] # "exists") =>
                pc'[p] = (IF marker THEN "rmdir" ELSE "done")
          /\ (pc[p] = "rmdir" /\ pc'[p] # "rmdir") => (pc'[p] = "done" /\ ~marker')]_vars

C6_Witness ==
    /\ pc[1] = "done"
    /\ ~marker
    /\ count[1] = 0
    /\ \E i \in DOMAIN sessions[1] : ~Failed(sessions[1][i])

\* C7: a load that fails closes that window only: the windows open before
\* stay as they were, and no later tick ends the process while one of its
\* windows is open.
C7_FatalErrorClosesOnlyItsWindow ==
    [][\A p \in Procs :
          /\ (Constructs(p) /\ Failed(sessions'[p][Len(sessions'[p])])) =>
                \A i \in DOMAIN sessions[p] : sessions'[p][i] = sessions[p][i]
          /\ ( /\ Decides(p)
               /\ \E i \in DOMAIN sessions[p] : Failed(sessions[p][i])
               /\ Windows(p) # {} )
             => pc'[p] = "wait"]_vars

\* C8: a construction whose load is refused for lack of permission leaves no
\* window and leaves the counter as it was.
C8_RefusedLoadLeavesCounter ==
    [][\A p \in Procs :
          LET s == sessions'[p][Len(sessions'[p])] IN
          ( /\ Constructs(p)
            /\ s.req # None
            /\ ReadFile(disk, Resolve(s.req)).kind = "denied" )
          => (~s.win /\ count'[p] = count[p])]_vars

\* C9: a construction for a path where no file exists succeeds: the window
\* is open with an empty buffer, new_file is true, the name shown is the
\* name asked for, and the counter is one higher.
C9_MissingFileOpensUnbound ==
    [][\A p \in Procs :
          LET s == sessions'[p][Len(sessions'[p])] IN
          ( /\ Constructs(p)
            /\ s.req # None
            /\ ReadFile(disk, Resolve(s.req)).kind = "absent" )
          => /\ s.win
             /\ s.text = <<>>
             /\ RStripNL(Get(s)) = <<>>
             /\ s.new_file
             /\ s.filename = Name(s.req)
             /\ s.title = Name(s.req) \o TitleSuffix
             /\ count'[p] = count[p] + 1]_vars

C9_Witness ==
    /\ Len(sessions[1]) = 1
    /\ sessions[1][1].req = FileM
    /\ sessions[1][1].win
    /\ sessions[1][1].new_file
    /\ sessions[1][1].filename = <<"m">>
    /\ count[1] = 1

\* is_file_saved() on window i of p as it stands
DirtyCheck(p, i) == IsFileSaved(Here(p, i))

Starred(title) == title # <<>> /\ Head(title) = STAR

BufferEmpty(s) == RStripNL(Get(s)) = <<>>

Unbound(p, i) == sessions[p][i].win /\ sessions[p][i].new_file

\* C10, as stated: for an unbound window the dirty check says dirty exactly
\* when the buffer without its trailing newlines is not empty, and the
\* title is starred exactly when it says dirty.
C10_UnboundDirtyIffNonEmpty ==
    \A p \in Procs : \A i \in DOMAIN sessions[p] :
        Unbound(p, i) =>
            LET r == DirtyCheck(p, i) IN
            /\ (r.ret # "True") <=> ~BufferEmpty(sessions[p][i])
            /\ Starred(r.s.title) <=> (r.ret # "True")

\* C10, amended: for an unbound window is_file_saved() never says saved,
\* whatever the buffer; the title it sets is starred exactly when the
\* buffer without its trailing newlines is not empty.
C10_UnboundStarIffNonEmpty ==
    \A p \in Procs : \A i \in DOMAIN sessions[p] :
        Unbound(p, i) =>
            LET r == DirtyCheck(p, i) IN
            /\ r.ret = "False"
            /\ Starred(r.s.title) <=> ~BufferEmpty(sessions[p][i])
            /\ r.s.title = (IF BufferEmpty(sessions[p][i]) THEN <<>> ELSE <<STAR>>)
                           \o sessions[p][i].filename \o TitleSuffix
            /\ r.s.text = sessions[p][i].text /\ r.s.new_file /\ r.dc = 0

C10_Witness ==
    \E i \in DOMAIN sessions[1] :
        /\ Unbound(1, i)
        /\ sessions[1][i].text = <<"x", NL>>
        /\ Starred(sessions[1][i].title)

Bound(p, i) == sessions[p][i].win /\ ~sessions[p][i].new_file

\* the file the dirty check of window i reads
OnDisk(p, i) ==
    ReadFile(disk, Join(Parent(sessions[p][i].filepath), sessions[p][i].filename))

Readable(f) == f.kind \notin {"absent", "denied", "bad"}

\* window i of p writes its buffer to its file in this step and stays open
SavedBy(p, i) ==
    /\ sessions[p][i].win /\ sessions'[p][i].win
    /\ disk' # disk
    /\ OnDisk(p, i)' = File("utf8", WriteText(Get(sessions[p][i])))

\* C11: for a bound window whose file can be read, the dirty check says
\* dirty exactly when the file as read now and the buffer differ, trailing
\* newlines aside, and stars the title exactly then; and right after a save
\* that wrote the file the dirty check says saved and the title has no star.
C11_BoundDirtyIffDiffers ==
    /\ [](\A p \in Procs : \A i \in DOMAIN sessions[p] :
            (Bound(p, i) /\ Readable(OnDisk(p, i))) =>
                LET r == DirtyCheck(p, i) IN
                /\ (r.ret # "True") <=>
                      (RStripNL(ReadText(OnDisk(p, i).data)) # RStripNL(Get(sessions[p][i])))
                /\ Starred(r.s.title) <=> (r.ret # "True")
                /\ r.ret \in {"True", "False"})
    /\ [][\A p \in Procs : \A i \in DOMAIN sessions[p] :
             SavedBy(p, i) =>
                /\ DirtyCheck(p, i)'.ret = "True"
                /\ ~Starred(sessions'[p][i].title)]_vars

\* a bound window whose file is gone
Orphan(p, i) == Bound(p, i) /\ OnDisk(p, i).kind = "absent"

\* C12, as stated: the dirty check of a bound window whose file is gone makes
\* the window unbound, leaves it open and the counter alone, and says not
\* dirty.
C12_MissingFileDemotesNotDirty ==
    \A p \in Procs : \A i \in DOMAIN sessions[p] :
        Orphan(p, i) =>
            LET r == DirtyCheck(p, i) IN
            r.s.new_file /\ r.s.win /\ r.dc = 0 /\ r.ret = "True"

\* C12, amended: the dirty check of a bound window whose file is gone makes
\* the window unbound and changes nothing else of it, leaves it open and the
\* counter alone, and says not saved (is_file_saved() returns False).
C12_MissingFileDemotesNotSaved ==
    \A p \in Procs : \A i \in DOMAIN sessions[p] :
        Orphan(p, i) =>
            LET r == DirtyCheck(p, i) IN
            /\ r.s = [sessions[p][i] EXCEPT !.new_file = TRUE]
            /\ r.s.win /\ r.dc = 0 /\ r.d = disk
            /\ r.ret = "False" /\ ~r.exc

\* the window opened for /a, unbound again after /a was removed
C12_Witness ==
    /\ FileA \notin DOMAIN disk
    /\ \E i \in DOMAIN sessions[1] :
          /\ sessions[1][i].filepath = FileA /\ sessions[1][i].filename = <<"a">>
          /\ Unbound(1, i)
          /\ count[1] = 1

\* C13, as stated: new_file, once false, stays false.
C13_NeverUnboundAgain ==
    [][\A p \in Procs : \A i \in DOMAIN sessions[p] :
          ~sessions[p][i].new_file => ~sessions'[p][i].new_file]_vars

\* C13, amended: new_file goes from false to true only in a step whose dirty
\* check finds the window's file missing; the step leaves the buffer of the
\* window and the files as they were.
C13_UnboundAgainOnlyWhenFileMissing ==
    [][\A p \in Procs : \A i \in DOMAIN sessions[p] :
          (~sessions[p][i].new_file /\ sessions'[p][i].new_file) =>
              /\ Orphan(p, i)
              /\ sessions'[p][i].text = sessions[p][i].text
              /\ disk' = disk]_vars

\* a window unbound again, with text in it and the star in its title
C13_Witness ==
    \E i \in DOMAIN sessions[1] :
        /\ sessions[1][i].filepath = FileA
        /\ Unbound(1, i)
        /\ sessions[1][i].text = <<"x", "x">>
        /\ Starred(sessions[1][i].title)

\* C14: new_file of a window goes from true to false only in a step that
\* wrote the buffer to the window's file; a save that fails, is rejected or
\* is cancelled leaves it true.
C14_BoundOnlyBySuccessfulWrite ==
    [][\A p \in Procs : \A i \in DOMAIN sessions[p] :
          (sessions[p][i].new_file /\ ~sessions'[p][i].new_file) =>
              OnDisk(p, i)' = File("utf8", WriteText(Get(sessions[p][i])))]_vars

\* Save As on window i of p, answered with a file that the user may not write
SaveAsDenied(p, i) == SaveWindow(Here(p, i), TRUE, FALSE, FileD)

\* the close prompt of window i answered Yes, and the save dialog that
\* follows answered with a file that the user may not write
CloseYesDenied(p, i) == SaveBeforeClosingInstance(Here(p, i), "yes", FileD)

\* C15: a save whose write is refused for lack of permission leaves the
\* window open, the counter, the buffer and the files as they were, and the
\* star in the title; the window is dirty afterwards; it is not closed
\* either when the save came from the Yes of the close prompt.
C15_RefusedWriteKeepsWindowDirty ==
    \A p \in Procs : \A i \in DOMAIN sessions[p] :
        (Live(p, i) /\ ReadFile(disk, FileD).kind = "denied") =>
            /\ LET r == SaveAsDenied(p, i) IN
               /\ r.s.win /\ r.dc = 0 /\ r.d = disk
               /\ r.s.text = sessions[p][i].text
               /\ Starred(sessions[p][i].title) => Starred(r.s.title)
               /\ IsFileSaved(r).ret = "False"
            /\ (ClosePromptShown(Here(p, i)) /\ SaveDialogShown(IsFileSaved(Here(p, i)), FALSE)) =>
                  LET r == CloseYesDenied(p, i) IN r.s.win /\ r.dc = 0

\* Save As on window i of p, answered with a name that holds a colon
SaveAsBadName(p, i) == SaveWindow(Here(p, i), TRUE, FALSE, BadName)

\* C16: a save under a name with a reserved character writes no file and
\* leaves the buffer, the file binding, new_file, the last save location and
\* the answer of the dirty check as they were.
C16_RejectedNameChangesNothing ==
    \A p \in Procs : \A i \in DOMAIN sessions[p] :
        Live(p, i) =>
            LET r == SaveAsBadName(p, i) IN
            /\ r.d = disk
            /\ r.s.text = sessions[p][i].text
            /\ r.s.filepath = sessions[p][i].filepath
            /\ r.s.filename = sessions[p][i].filename
            /\ r.s.new_file = sessions[p][i].new_file
            /\ r.ls = lastsave
            /\ IsFileSaved(r).ret = DirtyCheck(p, i).ret

\* two texts that are equal, or differ by one newline at the end
SameButOneNL(a, b) == a = b \/ a = b \o <<NL>> \/ b = a \o <<NL>>

\* Save As on window i of p, answered with /a
SaveAsFileA(p, i) == SaveWindow(Here(p, i), TRUE, FALSE, FileA)

\* the window that a later ShardInstance(master, /a) gives
Reloaded(p, i) == ShardInstanceInit(FileA, "arg", SaveAsFileA(p, i).d)

\* C17: the buffer saved to a file and loaded from it into a new window is
\* the buffer that was saved, but for one newline at the end.
C17_SaveThenLoadRoundTrip ==
    \A p \in Procs : \A i \in DOMAIN sessions[p] :
        (Live(p, i) /\ ReadFile(disk, FileA).kind # "denied") =>
            /\ Reloaded(p, i).s.win
            /\ SameButOneNL(Get(Reloaded(p, i).s), Get(sessions[p][i]))

\* C18: two dirty checks in a row on an open window, with no edit and no
\* change of the files between them, give the same answer.
C18_DirtyCheckIdempotent ==
    \A p \in Procs : \A i \in DOMAIN sessions[p] :
        Live(p, i) =>
            LET r1 == DirtyCheck(p, i)
                r2 == IsFileSaved(r1)
            IN  r1.s.win => (r2.ret = r1.ret /\ r2.s.win /\ r2.dc = 0 /\ ~r2.exc)

\* a window whose file was removed, with text in it: the first check makes
\* it unbound, the second takes the branch of an unbound window
C18_Witness ==
    \E i \in DOMAIN sessions[1] :
        /\ Live(1, i)
        /\ Orphan(1, i)
        /\ sessions[1][i].text = <<"x">>

\* the close request of window i closes at once: its dirty check says saved,
\* or leaves the window unbound with an empty buffer
ClosesAtOnce(p, i) ==
    LET r == DirtyCheck(p, i) IN r.ret = "True" \/ (r.s.new_file /\ BufferEmpty(r.s))

\* the dirty check of window i is refused the file and closes the window
CheckIsFatal(p, i) == DirtyCheck(p, i).ret = "None"

CloseAnswered(p, i, answer) == SaveBeforeClosingInstance(Here(p, i), answer, <<>>)

\* C19, as stated: the close request closes at once and without the prompt
\* exactly when the window is not dirty or unbound with an empty buffer,
\* and then the counter goes down by one and the window is destroyed; in
\* every other case the prompt comes before anything is closed.
C19_CloseAtOnceOrPrompt ==
    \A p \in Procs : \A i \in DOMAIN sessions[p] :
        Live(p, i) =>
            /\ ClosePromptShown(Here(p, i)) <=> ~ClosesAtOnce(p, i)
            /\ ClosesAtOnce(p, i) =>
                  \A a \in Answers : ~CloseAnswered(p, i, a).s.win /\ CloseAnswered(p, i, a).dc = -1
            /\ ~ClosesAtOnce(p, i) =>
                  CloseAnswered(p, i, "cancel").s.win /\ CloseAnswered(p, i, "cancel").dc = 0

\* C19, amended: as stated, but for the dirty check that is refused the
\* file: it closes the window itself, the counter goes down by one, and no
\* prompt comes.
C19_CloseAtOncePromptOrFatal ==
    \A p \in Procs : \A i \in DOMAIN sessions[p] :
        Live(p, i) =>
            /\ ClosePromptShown(Here(p, i)) <=> (~ClosesAtOnce(p, i) /\ ~CheckIsFatal(p, i))
            /\ (ClosesAtOnce(p, i) \/ CheckIsFatal(p, i)) =>
                  \A a \in Answers : ~CloseAnswered(p, i, a).s.win /\ CloseAnswered(p, i, a).dc = -1
            /\ ClosePromptShown(Here(p, i)) =>
                  /\ CloseAnswered(p, i, "cancel").s.win /\ CloseAnswered(p, i, "cancel").dc = 0
                  /\ ~CloseAnswered(p, i, "no").s.win /\ CloseAnswered(p, i, "no").dc = -1
            /\ ~(ClosesAtOnce(p, i) /\ CheckIsFatal(p, i))

\* the blank window closed at once, before the next tick
C19_Witness ==
    /\ pc[1] = "wait"
    /\ count[1] = 0
    /\ \E i \in DOMAIN sessions[1] :
          /\ ~sessions[1][i].win
          /\ sessions[1][i].new_file
          /\ sessions[1][i].text = <<>>
          /\ sessions[1][i].filename = Untitled

\* the close prompt of window i answered Cancel
Cancelled(p, i) == SaveBeforeClosingInstance(Here(p, i), "cancel", <<>>)

\* C20, as stated: Cancel at the close prompt leaves the window open, and
\* its buffer, its file binding, new_file, the files and the counter as they
\* were.
C20_CancelChangesNothing ==
    \A p \in Procs : \A i \in DOMAIN sessions[p] :
        (Live(p, i) /\ ClosePromptShown(Here(p, i))) =>
            LET r == Cancelled(p, i) IN
            /\ r.s.win /\ r.dc = 0 /\ r.d = disk /\ r.ls = lastsave
            /\ r.s.text = sessions[p][i].text
            /\ r.s.filepath = sessions[p][i].filepath
            /\ r.s.filename = sessions[p][i].filename
            /\ r.s.new_file = sessions[p][i].new_file

\* C20, amended: Cancel at the close prompt leaves the window open, and its
\* buffer, its file binding, the files and the counter as they were; new_file
\* is as it was unless the window was bound and its file is gone, and then
\* it is true; the title is the one the dirty check sets.
C20_CancelKeepsAllButDemotion ==
    \A p \in Procs : \A i \in DOMAIN sessions[p] :
        (Live(p, i) /\ ClosePromptShown(Here(p, i))) =>
            LET r == Cancelled(p, i) IN
            /\ r.s.win /\ r.dc = 0 /\ r.d = disk /\ r.ls = lastsave
            /\ r.s.text = sessions[p][i].text
            /\ r.s.filepath = sessions[p][i].filepath
            /\ r.s.filename = sessions[p][i].filename
            /\ r.s.new_file = (sessions[p][i].new_file \/ Orphan(p, i))
            /\ r.s = DirtyCheck(p, i).s

\* a window unbound by the check of a close request, still open with its text
C20_Witness ==
    \E i \in DOMAIN sessions[1] :
        /\ Live(1, i)
        /\ ClosePromptShown(Here(1, i))
        /\ sessions[1][i].filepath = FileA
        /\ sessions[1][i].new_file
        /\ sessions[1][i].text = <<"x", NL>>
        /\ sessions[1][i].title = <<"a">> \o TitleSuffix

\* process p was launched without arguments and found no marker: its first
\* window was made by create_instance() itself
BlankLaunch(p) ==
    /\ sessions[p] # <<>>
    /\ sessions[p][1].origin = "arg"
    /\ sessions[p][1].req = None

\* C21: a launch without arguments that finds no marker makes one window,
\* unbound and titled "Untitled"; when it enters the poll loop the marker
\* exists and the counter is 1.
C21_BlankLaunchOpensUntitled ==
    /\ [](\A p \in Procs :
            (BlankLaunch(p) /\ pc[p] \in {"start", "mkdir", "read"}) =>
                /\ Len(sessions[p]) = 1
                /\ Unbound(p, 1)
                /\ sessions[p][1].filename = <<"Untitled">>
                /\ sessions[p][1].title = <<"Untitled", " - Shard">>
                /\ sessions[p][1].text = <<>>
                /\ count[p] = 1
                /\ pc[p] = "read" => marker)
    /\ [][\A p \in Procs :
             /\ (pc[p] = "create" /\ todo[p] = <<None>> /\ ~marker /\ pc'[p] # "create") =>
                    (BlankLaunch(p)' /\ pc'[p] = "start")
             /\ (pc[p] = "start" /\ ~marker /\ pc'[p] # "start") => pc'[p] = "mkdir"
             /\ (pc[p] = "mkdir" /\ pc'[p] # "mkdir") => (pc'[p] = "read" /\ marker')]_vars

C21_Witness ==
    /\ BlankLaunch(1)
    /\ pc[1] = "read"
    /\ marker
    /\ count[1] = 1
    /\ Len(sessions[1]) = 1

\* C22: a process that finds the marker, and after the sleep an empty queue
\* file, ends without having made a window and leaves the marker alone; in
\* the other cases it makes the marker and enters the poll loop.
C22_FallbackExitOpenedNothing ==
    [][\A p \in Procs :
          /\ (pc[p] = "sleep" /\ pc'[p] = "done") =>
                (sessions[p] = <<>> /\ Strip(queue) = <<>> /\ marker' = marker)
          /\ (pc[p] = "sleep" /\ pc'[p] \notin {"sleep", "done"}) =>
                (pc'[p] = "mkdir" /\ Strip(queue) # <<>>)
          /\ (pc[p] = "start" /\ pc'[p] # "start") =>
                pc'[p] = (IF marker THEN "sleep" ELSE "mkdir")
          /\ (pc[p] = "mkdir" /\ pc'[p] # "mkdir") => (pc'[p] = "read" /\ marker')]_vars


(***************************************************************************)
(* C23.  A settings file whose nine fields are all allowed values but one  *)
(* (empty, an unknown word, not a number, or a number out of range) is     *)
(* read by the next window as the same nine values with the default in     *)
(* the place of the spoilt one, and is written again so.                   *)
(***************************************************************************)
SettingsOf(d) == SplitOn(ReadText(ReadFile(d, SettingsFile).data), TAB)

Written(allowed) == { FormatInt(n) : n \in allowed }

Allowed ==
    << Colors, Colors, Fonts, Written(TabsizeAllowed), Written(Sizes), Written(Opacity),
       FontStyles, WindowStates, TextWrapping >>

Documented ==
    << <<"black">>, <<"white">>, <<"Consolas">>, <<"4">>, <<"2", "0">>, <<"1", "0", "0">>,
       <<"normal">>, <<"normal">>, <<"word">> >>

OneSpoilt(vals) ==
    /\ Len(vals) = 9
    /\ Cardinality({ i \in 1..9 : vals[i] \notin Allowed[i] }) = 1

C23_SpoiltFieldGetsDefault ==
    [][\A p \in Procs :
         (Constructs(p) /\ OneSpoilt(SettingsOf(disk))) =>
            LET before == SettingsOf(disk)
                after == SettingsOf(disk')
            IN  /\ Len(after) = 9
                /\ \A i \in 1..9 :
                      after[i] = IF before[i] \in Allowed[i] THEN before[i] ELSE Documented[i]]_vars

C23_Witness ==
    /\ sessions[1] # <<>>
    /\ SettingsOf(disk) =
          << <<"sky blue">>, <<"white">>, <<"Consolas">>, <<"4">>, <<"2", "0">>, <<"3", "0">>,
             <<"normal">>, <<"normal">>, <<"word">> >>

\* the number of placeholder lines among the lines of a queue content
Placeholders(lines) == Cardinality({i \in DOMAIN lines : lines[i] = NoneStr})

\* the window a step has just constructed in process p is blank and untitled
OpensUntitled(p) ==
    /\ Constructs(p)
    /\ count'[p] = count[p] + 1
    /\ LET s == Last(sessions'[p]) IN
        /\ s.win /\ s.new_file
        /\ s.req = None
        /\ s.filename = <<"Untitled">>
        /\ s.title = <<"Untitled", " - Shard">>
        /\ s.text = <<>>

\* C24: a launch without arguments makes exactly one request, for a blank
\* window, and a launch with k arguments makes k, one per path in order;
\* each request is either one window constructed or one line appended to
\* the queue file; the placeholder line of a blank request is taken by the
\* next drain of the primary, which opens one untitled, unbound window for
\* it and does not open it as a path.
C24_OneSessionPerRequest ==
    [][\A p \in Procs :
         /\ (pc[p] = "idle" /\ pc'[p] = "create") =>
                (todo'[p] = <<None>> \/ (todo'[p] # <<>> /\ \A i \in DOMAIN todo'[p] : todo'[p][i] # None))
         /\ (pc[p] = "create" /\ todo'[p] # todo[p]) =>
                /\ todo'[p] = Tail(todo[p])
                /\ Constructs(p)
                /\ Last(sessions'[p]).req = Head(todo[p])
                /\ Head(todo[p]) = None => OpensUntitled(p)
                /\ queue' = queue
         /\ (pc[p] = "add" /\ todo'[p] # todo[p]) =>
                /\ todo'[p] = Tail(todo[p])
                /\ queue' = queue \o <<NL>> \o Str(Head(todo[p]))
                /\ Head(todo[p]) = None => Placeholders(Requests(queue')) = Placeholders(Requests(queue)) + 1
                /\ sessions' = sessions
         /\ (pc[p] = "clear" /\ pc'[p] = "open") =>
                Placeholders(Requests(queue)) = Placeholders(Lines(p))
         /\ (pc[p] = "open" /\ fpos'[p] = fpos[p] + 1 /\ foreign[p][fpos[p]] = NoneStr) =>
                OpensUntitled(p)]_vars

\* C24 without the conjunct on the truncation: what holds in every
\* interleaving
C24_RequestsWithoutTheDrain ==
    [][\A p \in Procs :
         /\ (pc[p] = "create" /\ todo'[p] # todo[p]) =>
                /\ todo'[p] = Tail(todo[p])
                /\ Constructs(p)
                /\ Head(todo[p]) = None => OpensUntitled(p)
         /\ (pc[p] = "add" /\ todo'[p] # todo[p]) =>
                queue' = queue \o <<NL>> \o Str(Head(todo[p]))
         /\ (pc[p] = "open" /\ fpos'[p] = fpos[p] + 1 /\ foreign[p][fpos[p]] = NoneStr) =>
                OpensUntitled(p)]_vars

\* the process has not begun to leave
Running(p) == pc[p] \notin {"exists", "rmdir", "done"}

\* C25: in every state of a running process the counter is the number of
\* its open windows, and so never negative, whatever windows were
\* constructed (failed loads among them), opened from other windows,
\* checked and closed.
C25_CountIsOpenWindows ==
    \A p \in Procs : Running(p) => count[p] = Cardinality(Windows(p))

\* what holds of the counter: it is the number of open windows less the
\* number of constructions that failed
C25_CountLessFailedLoads ==
    \A p \in Procs :
        Running(p) =>
            count[p] = Cardinality(Windows(p))
                         - Cardinality({i \in DOMAIN sessions[p] : Failed(sessions[p][i])})

\* C26: whenever a process runs the poll loop with a window open, the
\* marker exists; and a process that leaves never removes the marker while
\* another process runs the poll loop.
C26_MarkerWhilePrimaryHasWindows ==
    /\ [](\A p \in Procs : (InPollLoop(p) /\ Windows(p) # {}) => marker)
    /\ [][(marker /\ ~marker') => \A q \in Procs : ~InPollLoop(q)]_vars

\* the requests a launch can make: one blank, or one per argument
LaunchRequests ==
    {<<None>>} \cup {[i \in DOMAIN args |-> Resolve(args[i])] : args \in ArgLists \ {<<>>}}

\* the drain of process 1 has just constructed a window for each of reqs,
\* in order, and the process holds the marker
OpenedAll(reqs) ==
    /\ Drained(1) /\ marker
    /\ Len(sessions[1]) >= Len(reqs)
    /\ \A j \in DOMAIN reqs :
          /\ Recent(1, Len(reqs), j).req = reqs[j]
          /\ Recent(1, Len(reqs), j).origin = "queue"

Opened(p, i, opened) == OpenFileWindow(Here(p, i), opened)

CanBeRead(opened) == opened # <<>> /\ Readable(ReadFile(disk, opened))

\* the window is left as it was
Untouched(p, i, r) ==
    /\ r.here.s.text = sessions[p][i].text
    /\ r.here.s.filepath = sessions[p][i].filepath
    /\ r.here.s.filename = sessions[p][i].filename
    /\ r.here.s.new_file = sessions[p][i].new_file
    /\ r.here.s.win
    /\ r.here.dc = 0

\* the file is taken into the window, which is bound to it
TakenHere(r, opened) ==
    /\ r.made = <<>>
    /\ r.here.s.text = ReadText(ReadFile(disk, opened).data)
    /\ r.here.s.filepath = opened
    /\ r.here.s.filename = Name(opened)
    /\ ~r.here.s.new_file
    /\ r.here.s.win
    /\ r.here.dc = 0

\* one window is constructed for the file and counted
OpenedApart(r, opened) ==
    /\ Len(r.made) = 1
    /\ r.made[1].s.req = opened
    /\ r.made[1].s.filepath = opened
    /\ r.made[1].s.win
    /\ ~r.made[1].s.new_file
    /\ r.made[1].dc = 1

\* C28, as stated: a file that can be read is taken into the window itself
\* exactly when the window is unbound, named Untitled and its buffer is
\* empty, and the window is then bound to the file; otherwise the window
\* is left as it was and one new window is constructed for the file and
\* counted; a file that cannot be read, or no file chosen, changes nothing.
C28_OpenTakesEmptyUntitled ==
    \A p \in Procs : \A i \in DOMAIN sessions[p] : \A opened \in OpenChoices :
        Live(p, i) =>
            LET r == Opened(p, i, opened)
                s == sessions[p][i]
            IN  IF ~CanBeRead(opened)
                THEN r.here = Here(p, i) /\ r.made = <<>>
                ELSE IF s.new_file /\ s.filename = <<"Untitled">> /\ BufferEmpty(s)
                     THEN TakenHere(r, opened)
                     ELSE Untouched(p, i, r) /\ OpenedApart(r, opened)

\* the buffer holds nothing but white space
BufferBlank(s) == \A k \in 1..Len(s.text) : s.text[k] \in {SP, NL, CR, "\t"}

\* C28, amended: the file is taken into the window itself exactly when the
\* window is unbound, named Untitled and its buffer holds nothing but
\* white space (spaces and newlines typed are then lost with the buffer);
\* the rest as stated.
C28_OpenTakesBlankUntitled ==
    \A p \in Procs : \A i \in DOMAIN sessions[p] : \A opened \in OpenChoices :
        Live(p, i) =>
            LET r == Opened(p, i, opened)
                s == sessions[p][i]
            IN  IF ~CanBeRead(opened)
                THEN r.here = Here(p, i) /\ r.made = <<>>
                ELSE IF s.new_file /\ s.filename = <<"Untitled">> /\ BufferBlank(s)
                     THEN TakenHere(r, opened)
                     ELSE Untouched(p, i, r) /\ OpenedApart(r, opened)

C28_Witness ==
    /\ Len(sessions[1]) = 2
    /\ sessions[1][1].req = None /\ sessions[1][1].filepath = FileA /\ Bound(1, 1)
    /\ sessions[1][1].text = <<"x", NL>>
    /\ sessions[1][2].origin = "window" /\ sessions[1][2].req = FileA /\ Bound(1, 2)
    /\ count[1] = 2

\* the close prompt of window i answered Yes, the save dialog, if one
\* follows, answered with choice
CloseYes(p, i, choice) == SaveBeforeClosingInstance(Here(p, i), "yes", choice)

\* the answers the save dialog after the Yes may give
YesChoices(p, i) ==
    IF SaveDialogShown(IsFileSaved(Here(p, i)), FALSE) THEN SaveChoices ELSE {<<>>}

\* the file of the window as r leaves it holds the buffer
WrittenOut(p, i, r) ==
    ReadFile(r.d, Join(Parent(r.s.filepath), r.s.filename))
        = File("utf8", WriteText(Get(sessions[p][i])))

\* C29: after Yes at the close prompt the window is closed only when its
\* buffer has been written to its file, and the counter then goes down by
\* exactly one; when the save dialog is cancelled or the name chosen is
\* rejected, the window stays open, its buffer and the counter as they
\* were.
C29_ClosedOnlyAfterWrite ==
    \A p \in Procs : \A i \in DOMAIN sessions[p] :
        (Live(p, i) /\ ClosePromptShown(Here(p, i))) =>
            \A choice \in YesChoices(p, i) :
                LET r == CloseYes(p, i, choice) IN
                /\ ~r.s.win => (WrittenOut(p, i, r) /\ r.dc = -1)
                /\ (SaveDialogShown(IsFileSaved(Here(p, i)), FALSE) /\ choice \in {<<>>, BadName}) =>
                      (r.s.win /\ r.s.text = sessions[p][i].text /\ r.dc = 0)
                /\ WrittenOut(p, i, r) => (~r.s.win /\ r.dc = -1)
====
